---- MODULE Spec2Model ----
(***************************************************************************)
(* The travling-server wishlist service (express + MongoDB + jsonwebtoken) *)
(* as a state machine.                                                     *)
(*                                                                         *)
(* The repository holds three revisions of the server:                     *)
(*   "part_001"  src/unnamed/part_001        (current server)              *)
(*   "index_a"   src/index.js lines 1-183    (cookie-only JWT server)      *)
(*   "index_b"   src/index.js lines 185-285  (server without any guard;    *)
(*               src/unnamed/part_000 is the same server without the       *)
(*               /wishlist-recommend route)                                *)
(* rev is the revision that runs; it never changes in a behaviour.         *)
(*                                                                         *)
(* Node runs each handler to its next await without interleaving, so one   *)
(* action is: the arrival of a request with the guard and the handler's    *)
(* synchronous prefix, or one store call with the code that follows it up  *)
(* to the next store call or the response.                                 *)
(*                                                                         *)
(* Wishlist documents keep the fields some handler reads (_id, id,         *)
(* hotelId, name, email); their createdAt and other payload is not read by *)
(* any handler and is left out.                                            *)
(***************************************************************************)
EXTENDS Integers, Sequences, FiniteSets, Bags, TLC

VARIABLES
  rev,                  \* the revision of the server that is deployed
  NODE_ENV,             \* process.env.NODE_ENV || 'development'
  now,                  \* Math.floor(Date.now() / 1000)
  ticks,                \* how often the clock has advanced (bounded)
  usersCollection,      \* db.collection('users'): sequence of documents
  favoriteCollection,   \* db.collection('Favorite'): sequence, insertion order
  nextId,               \* the next ObjectId the store generates
  issued,               \* the tokens the server has signed so far
  inflight,             \* bag of requests suspended at a store call
  overlap,              \* some request arrived while another was in flight
  clients,              \* the clients connected
  out                   \* the response just sent, until the client has read it

vars == <<rev, NODE_ENV, now, ticks, usersCollection, favoriteCollection, nextId,
          issued, inflight, overlap, clients, out>>

----------------------------------------------------------------------------
(* Bounds of the model *)

MaxIds == 2         \* ObjectIds the store hands out
MaxTicks == 2       \* clock advances
MaxTokens == 2      \* tokens signed
MaxUsers == 2       \* documents in the users collection

----------------------------------------------------------------------------
(* Values *)

Revisions == {"part_001", "index_a", "index_b"}

None == "none"      \* undefined / absent field
NoTime == 0 - 1     \* absent timestamp

\* the clients; each has at most one request outstanding and reads the
\* response to it before it sends the next
Clients == {"c1", "c2"}

Emails == {"a@x", "b@x"}

\* the values of NODE_ENV a revision is started with (unset, it is
\* 'development'); index.js never reads it
Environments(r) ==
  IF r = "part_001" THEN {"production", "development"} ELSE {"development"}

\* String.prototype.toLowerCase on the emails of the model
toLowerCase(e) == IF e = "A@x" THEN "a@x" ELSE e

\* jwt.sign(..., { expiresIn }) in seconds
TTL_USERS == 31536000    \* '365d'
TTL_JWT == 720000        \* '200h'
TTL_JWT_OLD == 3600      \* '1h'

NoToken == [kind |-> "absent", email |-> None, exp |-> 0, signed |-> FALSE]
Garbage == [kind |-> "garbage", email |-> None, exp |-> 0, signed |-> FALSE]

\* jwt.sign(payload, JWT_SECRET, { expiresIn: ttl }) at time t
sign(email, ttl, t) ==
  [kind |-> "jwt", email |-> email, exp |-> t + ttl, signed |-> TRUE]

\* the same token with one byte of it changed: the signature no longer matches
Tamper(tok) == [tok EXCEPT !.signed = FALSE]

NoAuth == [scheme |-> "none", token |-> NoToken]
Bearer(tok) == [scheme |-> "Bearer", token |-> tok]
Basic(tok) == [scheme |-> "Basic", token |-> tok]

\* jwtVerify with the expiry compared one second late
jwtVerify_late(tok, t) ==
  IF tok.kind # "jwt" THEN [err |-> "jwt malformed", decoded |-> None]
  ELSE IF ~tok.signed THEN [err |-> "invalid signature", decoded |-> None]
  ELSE IF t > tok.exp THEN [err |-> "jwt expired", decoded |-> None]
  ELSE [err |-> None, decoded |-> tok.email]

\* the callback arguments of jwt.verify(token, JWT_SECRET, cb) at time t
jwtVerify(tok, t) ==
  IF tok.kind # "jwt" THEN [err |-> "jwt malformed", decoded |-> None]
  ELSE IF ~tok.signed THEN [err |-> "invalid signature", decoded |-> None]
  ELSE IF t >= tok.exp THEN [err |-> "jwt expired", decoded |-> None]
  ELSE [err |-> None, decoded |-> tok.email]

\* extract that reads the bearer header before the cookie
extract_headerFirst(cookie, auth) ==
  IF rev = "part_001" /\ auth.scheme = "Bearer" THEN auth.token
  ELSE cookie

\* const token = req.cookies?.token || (bearer header ? its value : null);
\* a cookie that is missing or empty is falsy: kind "absent"
extract(cookie, auth) ==
  IF cookie.kind # "absent" THEN cookie
  ELSE IF rev = "part_001" /\ auth.scheme = "Bearer" THEN auth.token
  ELSE NoToken

\* routes registered with the verifyJWT middleware
Guarded(route) ==
  /\ rev \in {"part_001", "index_a"}
  /\ route \in {"POST /wishlist", "POST /wishlist-recommend",
                "GET /wishlist", "DELETE /wishlist/:id"}

\* verifyJWT: status 0 stands for next() with req.user = user
verifyJWT(cookie, auth) ==
  LET token == extract(cookie, auth)
      v == jwtVerify(token, now)
  IN  IF token.kind = "absent" THEN [status |-> 401, user |-> None]
      ELSE IF v.err # None THEN [status |-> 403, user |-> None]
      ELSE [status |-> 0, user |-> v.decoded]

\* the middleware chain in front of a route's handler
guard(route, cookie, auth) ==
  IF Guarded(route) THEN verifyJWT(cookie, auth)
  ELSE [status |-> 0, user |-> None]

\* every string taken for an ObjectId
ObjectIdIsValid_any(id) == TRUE

\* ObjectId.isValid(id); 0 stands for a string that is no ObjectId
ObjectIdIsValid(id) == id # 0

----------------------------------------------------------------------------
(* The store (MongoDB collections) *)

\* a filter (query document) q matches document d: every field of q is a
\* field of d with the same value
matches(d, q) == \A f \in DOMAIN q : d[f] = q[f]

\* the first document of a collection that filter q matches, 0 when none does
firstIndex(coll, q) ==
  LET hits == {i \in 1..Len(coll) : matches(coll[i], q)}
  IN  IF hits = {} THEN 0 ELSE CHOOSE i \in hits : \A j \in hits : i <= j

\* collection.findOne(q) finds a document
found(coll, q) == firstIndex(coll, q) # 0

\* collection.find(q).toArray()
find(coll, q) == SelectSeq(coll, LAMBDA d : matches(d, q))

\* the collection without its i-th document
removeAt(coll, i) ==
  [j \in 1..(Len(coll) - 1) |-> IF j < i THEN coll[j] ELSE coll[j + 1]]

\* collection.deleteOne(q): the collection afterwards
deleteOne(coll, q) ==
  LET i == firstIndex(coll, q)
  IN  IF i = 0 THEN coll ELSE removeAt(coll, i)

\* the filter { hotelId }
byHotelEmail_anyOwner(hotelId, email) == [hotelId |-> hotelId]

\* the filters { id, email }, { hotelId, email }, { _id, email }, { _id },
\* { email } and the empty filter of find()
byIdEmail(id, email) == [id |-> id, email |-> email]

byHotelEmail(hotelId, email) == [hotelId |-> hotelId, email |-> email]

byOidEmail(oid, email) == [_id |-> oid, email |-> email]

byOid(oid) == [_id |-> oid]

byEmail(email) == [email |-> email]

\* the document insertOne stores for a wishlist request r: the whole body
\* with the email. via is no field of the stored document: it records the
\* handler that inserted it, which no filter reads.
favoriteDoc(r, oid) ==
  [_id |-> oid, id |-> r.id, hotelId |-> r.hotelId, name |-> r.name,
   email |-> r.email, via |-> r.route]

----------------------------------------------------------------------------
(* Requests and responses *)

\* the response sets no cookie
NoCookie == [httpOnly |-> FALSE, secure |-> FALSE, sameSite |-> None]

\* function cookieOptions(); index.js writes the attributes out
cookieOptions ==
  LET isProd == NODE_ENV = "production"
  IN  IF rev = "part_001"
      THEN [httpOnly |-> TRUE, secure |-> isProd,
            sameSite |-> IF isProd THEN "None" ELSE "Lax"]
      ELSE [httpOnly |-> TRUE, secure |-> FALSE, sameSite |-> "Lax"]

\* res.clearCookie('token') without options
clearCookie_bare == NoCookie

\* res.clearCookie('token', cookieOptions())
clearCookie == cookieOptions

\* the attributes of the Set-Cookie header of a response: of res.cookie when
\* a token is sent, of res.clearCookie when POST /logout answers
setCookie(route, status, token) ==
  IF token # NoToken THEN cookieOptions
  ELSE IF route = "POST /logout" /\ status = 200 THEN clearCookie
  ELSE NoCookie

NoBody == [id |-> None, hotelId |-> None, name |-> None, email |-> None,
           profile |-> None, createdAt |-> NoTime]

\* a request as its handler sees it: the route, the store call it is
\* suspended at, req.user, the body fields, req.params.id and the time of
\* new Date(); verified says that verifyJWT called next() for it
Suspended(route, pc, user, body, param, t) ==
  [route |-> route, pc |-> pc, user |-> user, verified |-> Guarded(route),
   id |-> body.id, hotelId |-> body.hotelId, name |-> body.name,
   email |-> body.email, profile |-> body.profile,
   createdAt |-> body.createdAt, param |-> param, t |-> t]

\* the response to request r: the request's fields, the status, the array
\* of a GET, the session cookie set, deletedCount; alone says no other
\* request was in flight with it
Response(r, status, items, token, deleted) ==
  [route |-> r.route, status |-> status, user |-> r.user, id |-> r.id,
   hotelId |-> r.hotelId, name |-> r.name, email |-> r.email,
   profile |-> r.profile, param |-> r.param, t |-> r.t,
   items |-> items, token |-> token,
   cookie |-> setCookie(r.route, status, token), deleted |-> deleted,
   alone |-> ~overlap /\ BagCardinality(inflight) <= 1]

NoResponse == [route |-> None, status |-> 0, user |-> None, id |-> None,
               hotelId |-> None, name |-> None, email |-> None,
               profile |-> None, param |-> 0, t |-> NoTime, items |-> <<>>,
               token |-> NoToken, cookie |-> NoCookie, deleted |-> NoTime,
               alone |-> TRUE]

InFlight == BagToSet(inflight)

\* the last response has been read
Ready == out = NoResponse

\* some client has no request outstanding
Free == BagCardinality(inflight) < Cardinality(clients)

\* res.status(s).json(...) of a request answered in its synchronous prefix
ReplyNow(r, status, token) ==
  /\ Ready /\ Free
  /\ out' = Response(r, status, <<>>, token, NoTime)
  /\ UNCHANGED <<inflight, overlap, clients>>

\* the request reaches its first await
Suspend(r) ==
  /\ Ready /\ Free
  /\ inflight' = inflight (+) SetToBag({r})
  /\ overlap' = (overlap \/ inflight # EmptyBag)
  /\ UNCHANGED <<out, clients>>

\* the suspended request r goes on to its next await as r2
Continue(r, r2) ==
  /\ Ready
  /\ inflight' = (inflight (-) SetToBag({r})) (+) SetToBag({r2})
  /\ UNCHANGED <<out, overlap, clients>>

\* the suspended request r is answered
Reply(r, status, items, token, deleted) ==
  /\ Ready
  /\ out' = Response(r, status, items, token, deleted)
  /\ inflight' = inflight (-) SetToBag({r})
  /\ overlap' = (overlap /\ inflight' # EmptyBag)
  /\ UNCHANGED clients

\* the promise of an async handler without try/catch rejects: express 4 sends
\* nothing (status 0)
Hang(r) == Reply(r, 0, <<>>, NoToken, NoTime)

----------------------------------------------------------------------------
(* POST /wishlist *)

\* the status of a stored / duplicate item
Created == IF rev = "part_001" THEN 201 ELSE 200
Duplicate == IF rev = "part_001" THEN 409 ELSE 400

postWishlist(cookie, auth, body) ==
  LET route == "POST /wishlist"
      g == guard(route, cookie, auth)
      userEmail == g.user
      sent == Suspended(route, "sent", userEmail, body, 0, now)
  IN  /\ UNCHANGED <<rev, NODE_ENV, now, ticks, usersCollection,
                     favoriteCollection, nextId, issued>>
      /\ IF g.status # 0 THEN ReplyNow(sent, g.status, NoToken)
         ELSE IF rev = "part_001" THEN
           IF body.id = None THEN ReplyNow(sent, 400, NoToken)
           ELSE IF userEmail = None THEN ReplyNow(sent, 403, NoToken)
           ELSE Suspend(Suspended(route, "findOne", userEmail,
                                  [body EXCEPT !.email = userEmail], 0, now))
         ELSE IF rev = "index_a" THEN
           IF body.id = None \/ body.email = None
           THEN ReplyNow(sent, 400, NoToken)
           ELSE Suspend(Suspended(route, "findOne", userEmail, body, 0, now))
         ELSE
           IF body.id = None THEN ReplyNow(sent, 400, NoToken)
           ELSE Suspend(Suspended(route, "insertOne", userEmail, body, 0, now))

\* const exists = await favoriteCollection.findOne({ id: item.id, email })
postWishlist_findOne(r) ==
  /\ r.route = "POST /wishlist" /\ r.pc = "findOne"
  /\ UNCHANGED <<rev, NODE_ENV, now, ticks, usersCollection,
                 favoriteCollection, nextId, issued>>
  /\ IF found(favoriteCollection, byIdEmail(r.id, r.email))
     THEN Reply(r, Duplicate, <<>>, NoToken, NoTime)
     ELSE Continue(r, [r EXCEPT !.pc = "insertOne"])

\* const result = await favoriteCollection.insertOne(...)
postWishlist_insertOne(r) ==
  /\ r.route = "POST /wishlist" /\ r.pc = "insertOne"
  /\ nextId <= MaxIds
  /\ favoriteCollection' = Append(favoriteCollection, favoriteDoc(r, nextId))
  /\ nextId' = nextId + 1
  /\ Reply(r, Created, <<>>, NoToken, NoTime)
  /\ UNCHANGED <<rev, NODE_ENV, now, ticks, usersCollection, issued>>

----------------------------------------------------------------------------
(* POST /wishlist-recommend *)

postWishlistRecommend(cookie, auth, body) ==
  LET route == "POST /wishlist-recommend"
      g == guard(route, cookie, auth)
      userEmail == g.user
      sent == Suspended(route, "sent", userEmail, body, 0, now)
  IN  /\ UNCHANGED <<rev, NODE_ENV, now, ticks, usersCollection,
                     favoriteCollection, nextId, issued>>
      /\ IF g.status # 0 THEN ReplyNow(sent, g.status, NoToken)
         ELSE IF rev = "part_001" THEN
           IF body.hotelId = None \/ body.name = None
           THEN ReplyNow(sent, 400, NoToken)
           ELSE IF userEmail = None THEN ReplyNow(sent, 403, NoToken)
           ELSE Suspend(Suspended(route, "findOne", userEmail,
                                  [body EXCEPT !.email = userEmail], 0, now))
         ELSE
           IF body.hotelId = None \/ body.name = None \/ body.email = None
           THEN ReplyNow(sent, 400, NoToken)
           ELSE Suspend(Suspended(route, "findOne", userEmail, body, 0, now))

\* const exists = await favoriteCollection.findOne({ hotelId, email })
postWishlistRecommend_findOne(r) ==
  /\ r.route = "POST /wishlist-recommend" /\ r.pc = "findOne"
  /\ UNCHANGED <<rev, NODE_ENV, now, ticks, usersCollection,
                 favoriteCollection, nextId, issued>>
  /\ IF found(favoriteCollection, byHotelEmail(r.hotelId, r.email))
     THEN Reply(r, 200, <<>>, NoToken, NoTime)
     ELSE Continue(r, [r EXCEPT !.pc = "insertOne"])

postWishlistRecommend_insertOne(r) ==
  /\ r.route = "POST /wishlist-recommend" /\ r.pc = "insertOne"
  /\ nextId <= MaxIds
  /\ favoriteCollection' = Append(favoriteCollection, favoriteDoc(r, nextId))
  /\ nextId' = nextId + 1
  /\ Reply(r, Created, <<>>, NoToken, NoTime)
  /\ UNCHANGED <<rev, NODE_ENV, now, ticks, usersCollection, issued>>

----------------------------------------------------------------------------
(* GET /wishlist *)

getWishlist(cookie, auth) ==
  LET route == "GET /wishlist"
      g == guard(route, cookie, auth)
      userEmail == g.user
      sent == Suspended(route, "sent", userEmail, NoBody, 0, now)
  IN  /\ UNCHANGED <<rev, NODE_ENV, now, ticks, usersCollection,
                     favoriteCollection, nextId, issued>>
      /\ IF g.status # 0 THEN ReplyNow(sent, g.status, NoToken)
         ELSE IF rev = "part_001" /\ userEmail = None
         THEN ReplyNow(sent, 403, NoToken)
         ELSE Suspend(Suspended(route, "find", userEmail,
                                [NoBody EXCEPT !.email = userEmail], 0, now))

\* favoriteCollection.find({ email: userEmail }).toArray(); find() before
findResult(r) ==
  IF rev = "part_001"
  THEN find(favoriteCollection, byEmail(r.email))
  ELSE favoriteCollection

getWishlist_find(r) ==
  /\ r.route = "GET /wishlist" /\ r.pc = "find"
  /\ UNCHANGED <<rev, NODE_ENV, now, ticks, usersCollection,
                 favoriteCollection, nextId, issued>>
  /\ Reply(r, 200, findResult(r), NoToken, NoTime)

----------------------------------------------------------------------------
(* DELETE /wishlist/:id *)

deleteWishlist(cookie, auth, id) ==
  LET route == "DELETE /wishlist/:id"
      g == guard(route, cookie, auth)
      userEmail == g.user
      req == Suspended(route, "deleteOne", userEmail,
                       [NoBody EXCEPT !.email = userEmail], id, now)
  IN  /\ UNCHANGED <<rev, NODE_ENV, now, ticks, usersCollection,
                     favoriteCollection, nextId, issued>>
      /\ IF g.status # 0 THEN ReplyNow(req, g.status, NoToken)
         ELSE IF rev = "part_001" THEN
           IF ~ObjectIdIsValid(id) THEN ReplyNow(req, 400, NoToken)
           ELSE IF userEmail = None THEN ReplyNow(req, 403, NoToken)
           ELSE Suspend(req)
         ELSE
           \* new ObjectId(id) throws in the async handler: nothing is sent
           IF ~ObjectIdIsValid(id) THEN ReplyNow(req, 0, NoToken)
           ELSE Suspend(req)

\* deleteResult with the filter { _id } in every revision
deleteResult_byOid(r, coll) == deleteOne(coll, byOid(r.param))

\* the collection after favoriteCollection.deleteOne(query) on coll
deleteResult(r, coll) ==
  IF rev = "part_001"
  THEN deleteOne(coll, byOidEmail(r.param, r.email))
  ELSE deleteOne(coll, byOid(r.param))

\* what the handler answers after deleteOne on coll: 404 when
\* result.deletedCount === 0, else 200 (res.send(result) before)
deleteReply(r, coll) ==
  LET deletedCount == Len(coll) - Len(deleteResult(r, coll))
  IN  IF rev = "part_001" /\ deletedCount = 0
      THEN [status |-> 404, deleted |-> NoTime]
      ELSE [status |-> 200, deleted |-> deletedCount]

deleteWishlist_deleteOne(r) ==
  LET reply == deleteReply(r, favoriteCollection)
  IN  /\ r.route = "DELETE /wishlist/:id" /\ r.pc = "deleteOne"
      /\ favoriteCollection' = deleteResult(r, favoriteCollection)
      /\ UNCHANGED <<rev, NODE_ENV, now, ticks, usersCollection, nextId, issued>>
      /\ Reply(r, reply.status, <<>>, NoToken, reply.deleted)

----------------------------------------------------------------------------
(* POST /users, POST /jwt, POST /logout *)

\* the server signs tok and sends it as the session cookie
Issue(tok) ==
  /\ Cardinality(issued \cup {tok}) <= MaxTokens
  /\ issued' = issued \cup {tok}

Registered(route) ==
  \/ rev \in {"part_001", "index_a"}
  \/ route \in {"POST /wishlist", "GET /wishlist", "DELETE /wishlist/:id",
                "POST /wishlist-recommend"}

postUsers(body) ==
  LET route == "POST /users"
      email == toLowerCase(body.email)
      sent == Suspended(route, "sent", None, body, 0, now)
  IN  /\ UNCHANGED <<rev, NODE_ENV, now, ticks, usersCollection,
                     favoriteCollection, nextId, issued>>
      /\ IF ~Registered(route) THEN ReplyNow(sent, 404, NoToken)
         ELSE IF rev = "part_001" THEN
           IF body.email = None THEN ReplyNow(sent, 400, NoToken)
           ELSE Suspend(Suspended(route, "updateOne", None,
                                  [body EXCEPT !.email = email], 0, now))
         ELSE Suspend(Suspended(route, "findOne", None, body, 0, now))

\* $set: { ...restUser, email, updatedAt } on the matched document
\* (a field the body does not carry keeps its value)
setUser(doc, r) ==
  [doc EXCEPT !.email = r.email,
              !.profile = IF r.profile = None THEN @ ELSE r.profile,
              !.updatedAt = r.t]

\* the document an upsert inserts: the filter, $set and $setOnInsert
upsertDoc(r) ==
  [email |-> r.email, profile |-> r.profile, createdAt |-> r.t,
   updatedAt |-> r.t]

\* the response of POST /users after its write
usersDone(r) ==
  LET token == sign(r.email, TTL_USERS, now)
  IN  /\ Issue(token)
      /\ Reply(r, 200, <<>>, token, NoTime)

\* usersCollection.updateOne(filter, update, { upsert: true }): the query
\* phase. No unique index exists on users.email, so an upsert that matches
\* nothing inserts in a second phase that other writes may precede.
postUsers_updateOne(r) ==
  LET i == firstIndex(usersCollection, byEmail(r.email))
  IN  /\ r.route = "POST /users" /\ r.pc = "updateOne"
      /\ UNCHANGED <<rev, NODE_ENV, now, ticks, favoriteCollection, nextId>>
      /\ IF i # 0
         THEN /\ usersCollection' =
                   [usersCollection EXCEPT ![i] = setUser(usersCollection[i], r)]
              /\ usersDone(r)
         ELSE /\ Continue(r, [r EXCEPT !.pc = "upsert"])
              /\ UNCHANGED <<usersCollection, issued>>

\* the insert phase of the upsert
postUsers_upsert(r) ==
  /\ r.route = "POST /users" /\ r.pc = "upsert"
  /\ Len(usersCollection) < MaxUsers
  /\ usersCollection' = Append(usersCollection, upsertDoc(r))
  /\ usersDone(r)
  /\ UNCHANGED <<rev, NODE_ENV, now, ticks, favoriteCollection, nextId>>

\* index.js: const existingUser = await usersCollection2.findOne({ email })
postUsers_findOne(r) ==
  /\ r.route = "POST /users" /\ r.pc = "findOne"
  /\ UNCHANGED <<rev, NODE_ENV, now, ticks, usersCollection,
                 favoriteCollection, nextId, issued>>
  /\ IF found(usersCollection, byEmail(r.email))
     THEN Reply(r, 200, <<>>, NoToken, NoTime)
     ELSE Continue(r, [r EXCEPT !.pc = "insertOne"])

\* index.js: await usersCollection2.insertOne(user)
postUsers_insertOne(r) ==
  /\ r.route = "POST /users" /\ r.pc = "insertOne"
  /\ Len(usersCollection) < MaxUsers
  /\ usersCollection' =
       Append(usersCollection,
              [email |-> r.email, profile |-> r.profile,
               createdAt |-> r.createdAt, updatedAt |-> NoTime])
  /\ usersDone(r)
  /\ UNCHANGED <<rev, NODE_ENV, now, ticks, favoriteCollection, nextId>>

postJwt(body) ==
  LET route == "POST /jwt"
      token == sign(body.email, TTL_JWT_OLD, now)
      sent == Suspended(route, "sent", None, body, 0, now)
  IN  /\ UNCHANGED <<rev, NODE_ENV, now, ticks, usersCollection,
                     favoriteCollection, nextId>>
      /\ IF ~Registered(route)
         THEN ReplyNow(sent, 404, NoToken) /\ UNCHANGED issued
         ELSE IF rev = "part_001" THEN
           /\ UNCHANGED issued
           /\ IF body.email = None THEN ReplyNow(sent, 400, NoToken)
              ELSE Suspend(Suspended(route, "findOne", None,
                           [body EXCEPT !.email = toLowerCase(body.email)],
                           0, now))
         ELSE Issue(token) /\ ReplyNow(sent, 200, token)

\* const user = await usersCollection.findOne({ email: email.toLowerCase() })
postJwt_findOne(r) ==
  LET i == firstIndex(usersCollection, byEmail(r.email))
      token == sign(usersCollection[i].email, TTL_JWT, now)
  IN  /\ r.route = "POST /jwt" /\ r.pc = "findOne"
      /\ UNCHANGED <<rev, NODE_ENV, now, ticks, usersCollection,
                     favoriteCollection, nextId>>
      /\ IF i = 0 THEN Reply(r, 404, <<>>, NoToken, NoTime) /\ UNCHANGED issued
         ELSE Issue(token) /\ Reply(r, 200, <<>>, token, NoTime)

postLogout ==
  /\ UNCHANGED <<rev, NODE_ENV, now, ticks, usersCollection,
                 favoriteCollection, nextId, issued>>
  /\ IF ~Registered("POST /logout")
     THEN ReplyNow(Suspended("POST /logout", "sent", None, NoBody, 0, now), 404, NoToken)
     ELSE ReplyNow(Suspended("POST /logout", "sent", None, NoBody, 0, now), 200, NoToken)

----------------------------------------------------------------------------
(* The environment: store failures, the clock, the clients *)

\* the awaited store call of r rejects after an insert took effect
storeError_late(r) ==
  /\ UNCHANGED <<rev, NODE_ENV, now, ticks, usersCollection, issued>>
  /\ IF r.pc = "insertOne" /\ r.route # "POST /users" /\ nextId <= MaxIds
     THEN /\ favoriteCollection' =
               Append(favoriteCollection, favoriteDoc(r, nextId))
          /\ nextId' = nextId + 1
     ELSE UNCHANGED <<favoriteCollection, nextId>>
  /\ IF rev = "part_001" \/ (rev = "index_a" /\ r.route = "POST /wishlist")
     THEN Reply(r, 500, <<>>, NoToken, NoTime)
     ELSE Hang(r)

\* the awaited store call of r rejects
storeError(r) ==
  /\ UNCHANGED <<rev, NODE_ENV, now, ticks, usersCollection,
                 favoriteCollection, nextId, issued>>
  /\ IF rev = "part_001" \/ (rev = "index_a" /\ r.route = "POST /wishlist")
     THEN Reply(r, 500, <<>>, NoToken, NoTime)
     ELSE Hang(r)

\* the instants the clock is looked at: the next second, the last second of
\* a signed token's life and the second it expires
Instants ==
  {now + 1} \cup {t.exp - 1 : t \in issued} \cup {t.exp : t \in issued}

\* time passes
Tick ==
  /\ Ready
  /\ ticks < MaxTicks
  /\ ticks' = ticks + 1
  /\ now' \in {i \in Instants : i > now}
  /\ UNCHANGED <<rev, NODE_ENV, usersCollection, favoriteCollection, nextId, issued,
                 inflight, overlap, clients, out>>

\* what a client may send as its credential: nothing, a token the server
\* signed, such a token with a byte changed, or something that is no token
Presentable == issued \cup {Tamper(t) : t \in issued} \cup {Garbage}
Cookies == {NoToken} \cup Presentable
Auths == {NoAuth, Basic(Garbage)} \cup {Bearer(t) : t \in issued \cup {Garbage}}

\* every cookie with every authorization header
Creds == Cookies \X Auths
\* request bodies: a plain item, a recommendation, the incomplete ones, and
\* a body that carries the fields of both
Shapes ==
  {[id |-> None, hotelId |-> None, name |-> None],
   [id |-> "h1", hotelId |-> None, name |-> None],
   [id |-> None, hotelId |-> "H1", name |-> "n"],
   [id |-> None, hotelId |-> "H1", name |-> None],
   [id |-> "h1", hotelId |-> "H1", name |-> "n"]}

WishBody(s, e) ==
  [id |-> s.id, hotelId |-> s.hotelId, name |-> s.name, email |-> e,
   profile |-> None, createdAt |-> NoTime]

\* each shape without an email field and with the second owner's
WishBodies == {WishBody(s, e) : s \in Shapes, e \in {None, "b@x"}}

UserBodies ==
  {[NoBody EXCEPT !.email = e, !.profile = "p1"] : e \in {None} \cup Emails}

\* bodies of POST /users for one person: the email with a profile, the
\* email in capitals with another profile and a createdAt field, and the
\* email without profile fields
UpsertBodies ==
  {[NoBody EXCEPT !.email = "a@x", !.profile = "p1"],
   [NoBody EXCEPT !.email = "A@x", !.profile = "p2", !.createdAt = 7],
   [NoBody EXCEPT !.email = "a@x"]}

\* ids for DELETE: no ObjectId (0), the ids handed out, the next one
ParamIds == 0..nextId

\* A handler reads the credential only through the guard: one credential
\* per outcome of the guard stands for all with that outcome.
Reps(route, creds) ==
  LET G(cr) == guard(route, cr[1], cr[2])
  IN  {CHOOSE cr \in creds : G(cr) = g : g \in {G(cr) : cr \in creds}}

\* the credentials a request to route may arrive with now
Arrivals(route) == IF Ready /\ Free THEN Reps(route, Creds) ELSE {}

\* the bodies to try with a credential: a request the guard turns away is
\* answered before its body is read
BodiesFor(route, cr, bodies) ==
  IF guard(route, cr[1], cr[2]).status = 0 THEN bodies ELSE {NoBody}
ParamsFor(route, cr) ==
  IF guard(route, cr[1], cr[2]).status = 0 THEN ParamIds ELSE {0}

----------------------------------------------------------------------------
(* The next-state relation *)

\* a request that reads arrives
ListRequest ==
  \E cr \in Arrivals("GET /wishlist") : getWishlist(cr[1], cr[2])

\* a request that reads or deletes arrives
ProbeRequest ==
  \/ ListRequest
  \/ \E cr \in Arrivals("DELETE /wishlist/:id") :
       \E id \in ParamsFor("DELETE /wishlist/:id", cr) :
         deleteWishlist(cr[1], cr[2], id)

\* a request to a wishlist route arrives
WishlistRequest ==
  \/ \E cr \in Arrivals("POST /wishlist") :
       \E b \in BodiesFor("POST /wishlist", cr, WishBodies) :
         postWishlist(cr[1], cr[2], b)
  \/ \E cr \in Arrivals("POST /wishlist-recommend") :
       \E b \in BodiesFor("POST /wishlist-recommend", cr, WishBodies) :
         postWishlistRecommend(cr[1], cr[2], b)
  \/ ProbeRequest

\* the store call of a GET request returns, or any store call fails
ListStep ==
  \/ \E r \in InFlight : getWishlist_find(r)
  \/ \E r \in InFlight : storeError(r)

\* a store call of a GET or DELETE request returns, or any store call fails
ProbeStep ==
  \/ ListStep
  \/ \E r \in InFlight : deleteWishlist_deleteOne(r)

\* a store call of a wishlist request returns
WishlistStep ==
  \/ \E r \in InFlight : postWishlist_findOne(r)
  \/ \E r \in InFlight : postWishlist_insertOne(r)
  \/ \E r \in InFlight : postWishlistRecommend_findOne(r)
  \/ \E r \in InFlight : postWishlistRecommend_insertOne(r)
  \/ ProbeStep

\* a request to a session route arrives
SessionRequest ==
  \/ \E b \in UserBodies : postUsers(b)
  \/ \E b \in UserBodies : postJwt(b)
  \/ postLogout

\* a POST /users of one person arrives
UpsertRequest == \E b \in UpsertBodies : postUsers(b)

\* a store call of POST /users returns or fails
UpsertStep ==
  \/ \E r \in InFlight : postUsers_updateOne(r)
  \/ \E r \in InFlight : postUsers_upsert(r)
  \/ \E r \in InFlight : postUsers_findOne(r)
  \/ \E r \in InFlight : postUsers_insertOne(r)
  \/ \E r \in InFlight : storeError(r)

\* a store call of a session request returns
SessionStep ==
  \/ \E r \in InFlight : postUsers_updateOne(r)
  \/ \E r \in InFlight : postUsers_upsert(r)
  \/ \E r \in InFlight : postUsers_findOne(r)
  \/ \E r \in InFlight : postUsers_insertOne(r)
  \/ \E r \in InFlight : postJwt_findOne(r)

\* a server started on an empty database with NODE_ENV unset, one client
\* connected
Init ==
  /\ rev \in Revisions
  /\ NODE_ENV = "development"
  /\ now = 0
  /\ ticks = 0
  /\ usersCollection = <<>>
  /\ favoriteCollection = <<>>
  /\ nextId = 1
  /\ issued = {}
  /\ inflight = EmptyBag
  /\ overlap = FALSE
  /\ clients = {"c1"}
  /\ out = NoResponse

\* the client reads the response
Receive ==
  /\ out # NoResponse
  /\ out' = NoResponse
  /\ UNCHANGED <<rev, NODE_ENV, now, ticks, usersCollection,
                 favoriteCollection, nextId, issued, inflight, overlap, clients>>

Next ==
  \/ WishlistRequest
  \/ WishlistStep
  \/ SessionRequest
  \/ SessionStep
  \/ Tick
  \/ Receive

\* the whole server, its requests served one after another
Spec == Init /\ [][Next]_vars

\* a server whose two owners have just registered (POST /users) at time 0,
\* two clients connected. The unguarded revision has no sessions. The
\* server runs in development: cookieOptions() is called only by the session
\* routes.
InitSessions ==
  /\ rev \in Revisions
  /\ NODE_ENV = "development"
  /\ now = 0
  /\ ticks = 0
  /\ favoriteCollection = <<>>
  /\ nextId = 1
  /\ inflight = EmptyBag
  /\ overlap = FALSE
  /\ clients = Clients
  /\ out = NoResponse
  /\ IF rev = "index_b"
     THEN usersCollection = <<>> /\ issued = {}
     ELSE /\ usersCollection =
               [i \in 1..2 |->
                  [email |-> <<"a@x", "b@x">>[i], profile |-> "p1",
                   createdAt |-> IF rev = "part_001" THEN 0 ELSE NoTime,
                   updatedAt |-> IF rev = "part_001" THEN 0 ELSE NoTime]]
          /\ issued = {sign("a@x", TTL_USERS, 0), sign("b@x", TTL_USERS, 0)}

NextWishlist ==
  \/ WishlistRequest
  \/ WishlistStep
  \/ Receive

\* the wishlist routes of a server with established sessions, requests
\* of two clients overlapping
SpecWishlist == InitSessions /\ [][NextWishlist]_vars

NextSession ==
  \/ SessionRequest
  \/ SessionStep
  \/ ListRequest
  \/ ListStep
  \/ Tick
  \/ Receive

\* the session routes and the guard of a server started on an empty database,
\* its requests served one after another
SpecSession == Init /\ [][NextSession]_vars

\* a server started on an empty database with NODE_ENV unset, two clients
\* connected
InitUsers ==
  /\ rev \in Revisions
  /\ NODE_ENV = "development"
  /\ now = 0
  /\ ticks = 0
  /\ usersCollection = <<>>
  /\ favoriteCollection = <<>>
  /\ nextId = 1
  /\ issued = {}
  /\ inflight = EmptyBag
  /\ overlap = FALSE
  /\ clients = Clients
  /\ out = NoResponse

NextUsers ==
  \/ UpsertRequest
  \/ UpsertStep
  \/ Tick
  \/ Receive

\* POST /users alone, requests of two clients overlapping
SpecUsers == InitUsers /\ [][NextUsers]_vars

\* a server started on an empty database in each environment, one client
\* connected
InitCookies ==
  /\ rev \in Revisions
  /\ NODE_ENV \in Environments(rev)
  /\ now = 0
  /\ ticks = 0
  /\ usersCollection = <<>>
  /\ favoriteCollection = <<>>
  /\ nextId = 1
  /\ issued = {}
  /\ inflight = EmptyBag
  /\ overlap = FALSE
  /\ clients = {"c1"}
  /\ out = NoResponse

NextCookies ==
  \/ SessionRequest
  \/ SessionStep
  \/ Receive

\* the routes that set and clear the session cookie, in production and in
\* development, requests served one after another
SpecCookies == InitCookies /\ [][NextCookies]_vars

NextStore ==
  \/ UpsertRequest
  \/ UpsertStep
  \/ WishlistRequest
  \/ WishlistStep
  \/ Receive

\* every route that writes, on a server started on an empty database, its
\* requests served one after another and store calls failing
SpecStore == Init /\ [][NextStore]_vars

----------------------------------------------------------------------------
(* Properties *)

\* how many documents of coll have the fields of q
Count(coll, q) ==
  Cardinality({i \in 1..Len(coll) : \A f \in DOMAIN q : coll[i][f] = q[f]})

\* coll holds the document with ObjectId oid and it is not email's
OthersItem(coll, oid, email) ==
  \E i \in 1..Len(coll) : coll[i]._id = oid /\ coll[i].email # email

\* the items of coll that belong to email
OwnOnly(coll, email) == SelectSeq(coll, LAMBDA d : d.email = email)

\* the token a request carries: its cookie, else its bearer header
carried(cookie, auth) ==
  IF cookie.kind # "absent" THEN cookie
  ELSE IF auth.scheme = "Bearer" THEN auth.token
  ELSE NoToken

\* C1: in the current server, under every interleaving of POST /wishlist
\* requests, the Favorite collection never holds two plain items with the
\* same owner email and the same external id
C1_NoTwoPlainItems ==
  rev = "part_001" =>
    \A i, j \in 1..Len(favoriteCollection) :
      (i # j /\ favoriteCollection[i].id # None)
        => ~(/\ favoriteCollection[j].id = favoriteCollection[i].id
             /\ favoriteCollection[j].email = favoriteCollection[i].email)

\* C2: in the current server, under every interleaving of
\* POST /wishlist-recommend requests, the Favorite collection never holds two
\* items with the same owner email and the same hotelId
C2_NoTwoRecommendations ==
  rev = "part_001" =>
    \A i, j \in 1..Len(favoriteCollection) :
      (i # j /\ favoriteCollection[i].hotelId # None)
        => ~(/\ favoriteCollection[j].hotelId = favoriteCollection[i].hotelId
             /\ favoriteCollection[j].email = favoriteCollection[i].email)

\* C3: a POST /wishlist of an authenticated owner O with an id E (and, in
\* index.js, the email field its handler requires) that runs with no other
\* request in flight and whose store calls succeed answers 201 and adds
\* exactly one item when no (O,E) item is stored, and answers 409 and leaves
\* the store unchanged when one is (both servers with a guard)
C3_SequentialAdd ==
  [][(/\ rev \in {"part_001", "index_a"}
      /\ out' # NoResponse /\ out'.route = "POST /wishlist" /\ out'.alone
      /\ out'.user # None /\ out'.id # None /\ out'.email # None
      /\ out'.status \notin {0, 500})
     => LET Same == [id |-> out'.id, email |-> out'.user]
        IN  IF Count(favoriteCollection, Same) > 0
            THEN out'.status = 409 /\ favoriteCollection' = favoriteCollection
            ELSE /\ out'.status = 201
                 /\ Len(favoriteCollection') = Len(favoriteCollection) + 1
                 /\ Count(favoriteCollection', Same) = 1]_vars

\* C4: in the current server a POST /wishlist-recommend of an authenticated
\* owner O with hotelId H and a name that runs with no other request in
\* flight and whose store calls succeed answers 201 and adds exactly one item
\* when no (O,H) item is stored, and answers 200 and leaves the store
\* unchanged when one is: two calls in sequence store one item, 201 then 200
C4_RecommendIdempotent ==
  [][(/\ rev = "part_001"
      /\ out' # NoResponse /\ out'.route = "POST /wishlist-recommend"
      /\ out'.alone /\ out'.user # None
      /\ out'.hotelId # None /\ out'.name # None /\ out'.status # 500)
     => LET Same == [hotelId |-> out'.hotelId, email |-> out'.user]
        IN  IF Count(favoriteCollection, Same) > 0
            THEN out'.status = 200 /\ favoriteCollection' = favoriteCollection
            ELSE /\ out'.status = 201
                 /\ Len(favoriteCollection') = Len(favoriteCollection) + 1
                 /\ SubSeq(favoriteCollection', 1, Len(favoriteCollection))
                      = favoriteCollection
                 /\ Count(favoriteCollection', Same) = 1]_vars

\* C4 witness: the second of two recommendations of one hotel by one owner
\* has been answered 200 and one such item is stored
C4_Witness ==
  /\ rev = "part_001"
  /\ out.route = "POST /wishlist-recommend" /\ out.alone /\ out.status = 200
  /\ out.user # None
  /\ Count(favoriteCollection,
           [hotelId |-> out.hotelId, email |-> out.user]) = 1

\* C5: a GET /wishlist of an authenticated owner O answers with exactly the
\* stored items whose email is O (both servers with a guard)
C5_ListIsOwn ==
  (/\ rev \in {"part_001", "index_a"}
   /\ out.route = "GET /wishlist" /\ out.status = 200)
    => out.items = OwnOnly(favoriteCollection, out.user)

\* C6: an item leaves the store only in the step that answers a DELETE of
\* its owner, and a DELETE of O for the id of an item of another owner
\* answers 404 and changes nothing (both servers with a guard)
C6_DeleteOnlyOwn ==
  [][(rev \in {"part_001", "index_a"}) =>
     (/\ \A i \in 1..Len(favoriteCollection) :
           Count(favoriteCollection',
                 [_id |-> favoriteCollection[i]._id]) = 0
             => /\ out'.route = "DELETE /wishlist/:id"
                /\ out'.user = favoriteCollection[i].email
      /\ (/\ out' # NoResponse /\ out'.route = "DELETE /wishlist/:id"
          /\ out'.user # None /\ out'.status \notin {0, 500}
          /\ OthersItem(favoriteCollection, out'.param, out'.user))
         => out'.status = 404 /\ favoriteCollection' = favoriteCollection)
    ]_vars

\* C7: in the current server the answer to a DELETE /wishlist/:id of caller
\* O is the same on the store as it is and on the store without the items
\* of all other owners
C7_DeleteLeaksNothing ==
  rev = "part_001" =>
    \A r \in InFlight :
      r.route = "DELETE /wishlist/:id"
        => deleteReply(r, favoriteCollection)
             = deleteReply(r, OwnOnly(favoriteCollection, r.user))

\* C7 witness: a DELETE for the id of another owner's item has been answered
\* 404, as for a missing id, and the item is still stored
C7_Witness ==
  /\ rev = "part_001"
  /\ out.route = "DELETE /wishlist/:id" /\ out.status = 404
  /\ OthersItem(favoriteCollection, out.param, out.user)

\* C8: a request that is at a store call of a route that writes users or
\* wishlist items, or reads an owner's wishlist, has passed verifyJWT
C8_StoreBehindGuard ==
  \A r \in InFlight :
    r.route \in {"POST /users", "POST /wishlist", "POST /wishlist-recommend",
                 "GET /wishlist", "DELETE /wishlist/:id"}
      => r.verified

\* C9: on a route registered with verifyJWT a request with no cookie and no
\* bearer header is answered 401, and a request whose token is expired,
\* malformed or wrongly signed is answered 403
C9_RejectionsClassified ==
  \A route \in {"POST /wishlist", "POST /wishlist-recommend",
                "GET /wishlist", "DELETE /wishlist/:id"} :
    Guarded(route) =>
      \A cr \in Creds :
        LET token == carried(cr[1], cr[2])
            answer == guard(route, cr[1], cr[2]).status
        IN  /\ token.kind = "absent" => answer = 401
            /\ (token.kind # "absent" /\ jwtVerify(token, now).err # None)
                 => answer = 403

\* C10: in the current server a token the server signed for S, presented as
\* the cookie or as the bearer header, is admitted with subject S at every
\* time before its exp and answered 403 from its exp on
C10_AdmittedUntilExpiry ==
  rev = "part_001" =>
    \A t \in issued :
      LET expected == IF now < t.exp THEN [status |-> 0, user |-> t.email]
                      ELSE [status |-> 403, user |-> None]
      IN  /\ \A a \in Auths : verifyJWT(t, a) = expected
          /\ verifyJWT(NoToken, Bearer(t)) = expected

\* C10 witness: one signed token has expired, another is still admitted and
\* a GET /wishlist with it has been answered for its subject
C10_Witness ==
  /\ rev = "part_001"
  /\ \E t1, t2 \in issued :
       /\ now >= t1.exp /\ now < t2.exp
       /\ out.route = "GET /wishlist" /\ out.status = 200
       /\ out.user = t2.email

\* C11: the users collection never holds two documents whose emails are
\* equal after case folding, whatever the order and overlap of POST /users
C11_OneUserPerEmail ==
  \A i, j \in 1..Len(usersCollection) :
    i # j => toLowerCase(usersCollection[i].email)
               # toLowerCase(usersCollection[j].email)

\* C12: in the current server a POST /users that runs with no other request
\* in flight, for an email that has a record, leaves one record for the
\* email, with the createdAt it had, the profile fields of this request and
\* the time of this request as updatedAt
C12_SecondUpsert ==
  [][(/\ rev = "part_001"
      /\ out' # NoResponse /\ out'.route = "POST /users" /\ out'.alone
      /\ out'.status = 200
      /\ Count(usersCollection, [email |-> out'.email]) > 0)
     => LET i == CHOOSE k \in 1..Len(usersCollection) :
                   usersCollection[k].email = out'.email
        IN  /\ Len(usersCollection') = Len(usersCollection)
            /\ Count(usersCollection', [email |-> out'.email]) = 1
            /\ usersCollection'[i].createdAt = usersCollection[i].createdAt
            /\ usersCollection'[i].profile = out'.profile
            /\ usersCollection'[i].updatedAt = out'.t]_vars


\* C13: POST /jwt sets the session cookie only when a user record exists for
\* the case-folded email of the body: a body without email is answered 400,
\* an email no user has 404 (500 when the lookup itself fails), and in both
\* cases no token is signed and no cookie is set.
C13_JwtOnlyForUsers ==
  (rev \in {"part_001", "index_a"} /\ out.route = "POST /jwt") =>
     /\ out.token # NoToken =>
          /\ out.email # None
          /\ found(usersCollection, byEmail(toLowerCase(out.email)))
     /\ out.email = None => out.status = 400 /\ out.token = NoToken
     /\ (/\ out.email # None
         /\ ~found(usersCollection, byEmail(toLowerCase(out.email))))
        => out.status \in {404, 500} /\ out.token = NoToken

\* C14: for each value of the production flag the attributes POST /logout
\* clears the session cookie with are those POST /users and POST /jwt set
\* it with: httpOnly always, secure with sameSite 'None' exactly in
\* production, otherwise not secure with sameSite 'Lax'.
C14_CookieAttributes ==
  (/\ rev = "part_001"
   /\ \/ out.token # NoToken
      \/ out.route = "POST /logout" /\ out.status = 200)
  => /\ out.cookie.httpOnly
     /\ IF NODE_ENV = "production"
        THEN out.cookie.secure /\ out.cookie.sameSite = "None"
        ELSE ~out.cookie.secure /\ out.cookie.sameSite = "Lax"

\* a logout in production after a session cookie was set
C14_Witness ==
  /\ rev = "part_001" /\ NODE_ENV = "production"
  /\ issued # {}
  /\ out.route = "POST /logout" /\ out.status = 200
  /\ out.cookie.secure

\* C15: a request whose store call fails is answered 500 by a step that
\* leaves both collections as they are, and the collections change only in
\* the step that answers a request with success: by one store call on one
\* collection, adding or removing at most one document. No step of a request
\* before its last one writes, so a failed request leaves the store as it
\* found it.
C15_NoPartialState ==
  [][(rev = "part_001") =>
       /\ (out' # NoResponse /\ out'.status = 500)
            => UNCHANGED <<usersCollection, favoriteCollection>>
       /\ (<<usersCollection, favoriteCollection>>' #
             <<usersCollection, favoriteCollection>>)
            => /\ out = NoResponse /\ out' # NoResponse
               /\ out'.status \in {200, 201}
               /\ \/ UNCHANGED usersCollection
                  \/ UNCHANGED favoriteCollection
               /\ Len(usersCollection') - Len(usersCollection) \in {0, 1}
               /\ Len(favoriteCollection') - Len(favoriteCollection)
                    \in {0 - 1, 0, 1}]_vars

\* a wishlist insert failed after an item and a user were stored
C15_Witness ==
  /\ rev = "part_001"
  /\ out.status = 500 /\ out.route = "POST /wishlist"
  /\ out.id # None
  /\ favoriteCollection # <<>> /\ usersCollection # <<>>

\* C16: a request of an authenticated caller that fails validation (POST
\* /wishlist without id, POST /wishlist-recommend without hotelId or without
\* name, DELETE /wishlist/:id with an id that is no ObjectId) is answered 400
\* on arrival: no store call is made and both collections stay as they are.
C16_ValidationError ==
  [][(/\ rev = "part_001"
      /\ out' # out /\ out' # NoResponse
      /\ out'.user # None
      /\ \/ out'.route = "POST /wishlist" /\ out'.id = None
         \/ /\ out'.route = "POST /wishlist-recommend"
            /\ (out'.hotelId = None \/ out'.name = None)
         \/ out'.route = "DELETE /wishlist/:id" /\ out'.param = 0)
     => /\ out'.status = 400
        /\ UNCHANGED <<usersCollection, favoriteCollection, nextId,
                       inflight>>]_vars

\* the owner of a stored item sends DELETE with an id that is no ObjectId
C16_Witness ==
  /\ rev = "part_001"
  /\ out.route = "DELETE /wishlist/:id" /\ out.param = 0
  /\ out.status = 400
  /\ Count(favoriteCollection, [email |-> out.user]) > 0

\* C17: in the current server the two ways to add do not interfere: a POST
\* /wishlist-recommend is answered 200 'Already in wishlist' only when a
\* document that POST /wishlist-recommend stored for this owner and hotelId
\* is in the collection, and a POST /wishlist is answered 409 only when a
\* document that POST /wishlist stored for this owner and id is.
C17_AddsIndependent ==
  [][(rev = "part_001" /\ out' # out /\ out'.user # None) =>
       /\ (out'.route = "POST /wishlist-recommend" /\ out'.status = 200)
            => Count(favoriteCollection,
                     [hotelId |-> out'.hotelId, email |-> out'.user,
                      via |-> "POST /wishlist-recommend"]) > 0
       /\ (out'.route = "POST /wishlist" /\ out'.status = 409)
            => Count(favoriteCollection,
                     [id |-> out'.id, email |-> out'.user,
                      via |-> "POST /wishlist"]) > 0]_vars

\* C18: a document enters the Favorite collection with the email of the
\* verified subject of the request that inserts it, whatever email the body
\* carries, and a stored document keeps its email (both servers with a guard)
C18_OwnerIsSubject ==
  [][(rev \in {"part_001", "index_a"}) =>
       /\ Len(favoriteCollection') > Len(favoriteCollection)
            => /\ out'.user # None
               /\ favoriteCollection'[Len(favoriteCollection')].email
                    = out'.user
       /\ \A i \in 1..Len(favoriteCollection) :
            \A j \in 1..Len(favoriteCollection') :
              favoriteCollection'[j]._id = favoriteCollection[i]._id
                => favoriteCollection'[j].email
                     = favoriteCollection[i].email]_vars

\* C19: in the current server the step that answers a DELETE /wishlist/:id
\* with 200 removes the document with that _id and nothing else: the other
\* documents and the users stay as they are, and no document with the removed
\* one's owner and external id stays behind, so that the owner's next POST
\* /wishlist for that id finds none and is answered 201. A document that
\* enters the collection has an _id never handed out before: a removed
\* document does not come back.
C19_RemovedForGood ==
  [][(rev = "part_001") =>
       /\ (/\ out' # out /\ out'.route = "DELETE /wishlist/:id"
           /\ out'.status = 200)
          => LET i == firstIndex(favoriteCollection, byOid(out'.param))
                 gone == favoriteCollection[i]
             IN  /\ i # 0
                 /\ gone.email = out'.user
                 /\ favoriteCollection' = removeAt(favoriteCollection, i)
                 /\ usersCollection' = usersCollection
                 /\ gone.id # None
                      => ~found(favoriteCollection',
                                byIdEmail(gone.id, gone.email))
       /\ \A j \in 1..Len(favoriteCollection') :
            \/ found(favoriteCollection, byOid(favoriteCollection'[j]._id))
            \/ favoriteCollection'[j]._id = nextId]_vars

\* C20: in the current server verifyJWT takes the token from the cookie and
\* from the bearer header only when there is no cookie token: with a cookie
\* token the answer is the one the cookie alone gets whatever the header
\* carries (403 for an invalid cookie also next to a valid bearer token,
\* admission as the cookie's subject for a valid one); without a cookie token
\* the answer is the one the bearer token gets, and 401 when the header is
\* missing or of another scheme.
C20_CookieFirst ==
  rev = "part_001" =>
    \A c \in Cookies, a \in Auths :
      LET answer == verifyJWT(c, a)
      IN  IF c # NoToken
          THEN /\ answer = verifyJWT(c, NoAuth)
               /\ IF c \in issued /\ now < c.exp
                  THEN answer = [status |-> 0, user |-> c.email]
                  ELSE answer = [status |-> 403, user |-> None]
          ELSE IF a.scheme = "Bearer"
          THEN answer = verifyJWT(a.token, NoAuth)
          ELSE answer = [status |-> 401, user |-> None]

\* a request with an invalid cookie has been answered 403 while a valid token
\* of another session exists, and a second token has expired
C20_Witness ==
  /\ rev = "part_001"
  /\ out.route = "GET /wishlist" /\ out.status = 403
  /\ \E t1, t2 \in issued : now < t1.exp /\ now >= t2.exp

\* C21: the handling of a request to a registered route never ends with
\* nothing sent: whichever way verifyJWT and the handler take (validation
\* failure, rejection by the guard, duplicate, success, store failure), the
\* request is answered with a status.
C21_OneResponse ==
  (out # NoResponse /\ Registered(out.route)) => out.status # 0

====
